---- MODULE Spec2Model ----
(***************************************************************************)
(* Croner Document Manager: the navigation-and-search state engine         *)
(* (hook useDocuments) and the keyboard/focus coordinator                   *)
(* (hook useKeyboardNavigation), as wired together by App.                  *)
(*                                                                          *)
(* Strings are sequences of one-character strings, so that trim,            *)
(* toLowerCase, includes, length and the regular expressions of the         *)
(* validation are computed character by character.                          *)
(* Time advances in steps of 100ms, the greatest common divisor of the       *)
(* delays of the code (300ms debounce, 300ms forward navigation, 200ms      *)
(* back navigation).  State updates made in one handler or one timer        *)
(* continuation are one step (React batches them into one render).          *)
(***************************************************************************)
EXTENDS Integers, Sequences, FiniteSets, TLC

VARIABLES
    currentPath,        \* useDocuments: currentPath, sequence of folder names
    sortOption,         \* useDocuments: sortOption {field, direction}
    filterOptions,      \* useDocuments: filterOptions {filename}
    debouncedFilter,    \* useDocuments: debouncedFilter
    isLoading,          \* useDocuments: isLoading
    searchError,        \* useDocuments: searchError
    timers,             \* pending setTimeout callbacks, in registration order
    currentFocusIndex,  \* useKeyboardNavigation: currentFocusIndex.current
    change              \* what the runs that follow single calls remember
                        \* of them (the argument of a handleFilterChange
                        \* call and the state it started from; the course of
                        \* a burst of filter changes); constant elsewhere

vars == <<currentPath, sortOption, filterOptions, debouncedFilter, isLoading,
          searchError, timers, currentFocusIndex, change>>

engineVars == <<currentPath, sortOption, filterOptions, debouncedFilter,
                isLoading, searchError, timers>>

----------------------------------------------------------------------------
(* Bounds of the model *)

\* longest of the short search texts given to the validation
MaxShortLen == 2
\* longest of the texts tried exhaustively on a single call of the validation
MaxTypedLen == 3
\* most navigations waiting out their delay at the same time
MaxPending == 2

(* Program constants *)

MaxSearchLen == 50
MaxSpaces == 3
DebounceDelay == 300
NavForwardDelay == 300
NavBackDelay == 200

TooLongMsg == "Search term too long (max 50 characters)"
InvalidCharsMsg == "Invalid characters in search term"
TooManySpacesMsg == "Too many consecutive spaces"
NoError == ""

----------------------------------------------------------------------------
(* Strings *)

Alphabet == {"a", "B", " ", "<"}
WhitespaceChars == {" "}
ForbiddenChars == {"<", ">", ":", "\"", "\\", "|", "?", "*"}

RECURSIVE Repeat(_, _)
Repeat(c, n) == IF n = 0 THEN <<>> ELSE <<c>> \o Repeat(c, n - 1)

RECURSIVE StringsUpTo(_)
StringsUpTo(n) ==
    IF n = 0 THEN {<<>>}
    ELSE LET shorter == StringsUpTo(n - 1)
         IN  shorter \cup {s \o <<c>> : s \in shorter, c \in Alphabet}

RECURSIVE trimStart(_)
trimStart(s) ==
    IF s = <<>> THEN <<>>
    ELSE IF Head(s) \in WhitespaceChars THEN trimStart(Tail(s)) ELSE s

RECURSIVE trimEnd(_)
trimEnd(s) ==
    IF s = <<>> THEN <<>>
    ELSE IF s[Len(s)] \in WhitespaceChars
         THEN trimEnd(SubSeq(s, 1, Len(s) - 1)) ELSE s

\* trim that forgets the trailing whitespace
trimLeadingOnly(s) == trimStart(s)

trim(s) == trimEnd(trimStart(s))

lowerChar(c) == IF c = "A" THEN "a" ELSE IF c = "B" THEN "b" ELSE c

toLowerCase(s) == [i \in 1..Len(s) |-> lowerChar(s[i])]

\* a match at the start of the string only
startsWith(s, t) == Len(t) <= Len(s) /\ SubSeq(s, 1, Len(t)) = t

includes(s, t) ==
    \E i \in 0..(Len(s) - Len(t)) : SubSeq(s, i + 1, i + Len(t)) = t

\* /[<>:"\\|?*]/.test(s)
hasForbiddenChar(s) == \E i \in 1..Len(s) : s[i] \in ForbiddenChars

\* /\s{3,}/.test(s)
hasSpaceRun(s) ==
    \E i \in 1..(Len(s) - MaxSpaces + 1) :
        \A k \in 0..(MaxSpaces - 1) : s[i + k] \in WhitespaceChars

(* String.prototype.localeCompare: letters are compared without case      *)
(* first, and lower case before upper case breaks the tie; space and      *)
(* symbols sort before digits, digits before letters.                     *)
primaryRank(c) ==
    CASE c = " " -> 1
      [] c \in ForbiddenChars -> 2
      [] c = "1" -> 3
      [] c = "2" -> 4
      [] c = "3" -> 5
      [] c \in {"a", "A"} -> 6
      [] c \in {"b", "B"} -> 7
      [] OTHER -> 8

tertiaryRank(c) == IF c \in {"A", "B"} THEN 1 ELSE 0

\* lexicographic comparison of two sequences of ranks: -1, 0 or 1
RECURSIVE lexCompare(_, _)
lexCompare(s, t) ==
    IF s = <<>> /\ t = <<>> THEN 0
    ELSE IF s = <<>> THEN -1
    ELSE IF t = <<>> THEN 1
    ELSE IF Head(s) < Head(t) THEN -1
    ELSE IF Head(s) > Head(t) THEN 1
    ELSE lexCompare(Tail(s), Tail(t))

localeCompare(s, t) ==
    LET p == lexCompare([i \in 1..Len(s) |-> primaryRank(s[i])],
                        [i \in 1..Len(t) |-> primaryRank(t[i])])
    IN  IF p # 0 THEN p
        ELSE lexCompare([i \in 1..Len(s) |-> tertiaryRank(s[i])],
                        [i \in 1..Len(t) |-> tertiaryRank(t[i])])

----------------------------------------------------------------------------
(* The document tree (mockData), never changed after load.  A file's      *)
(* `added` date string is a short digit string; a folder has `files`.      *)

File(type, name, added) ==
    [type |-> type, name |-> name, added |-> added, files |-> <<>>]

Folder(name, files) ==
    [type |-> "folder", name |-> name, added |-> <<>>, files |-> files]

mockData ==
    << Folder(<<"a">>, << File("doc", <<"A", "b">>, <<"2">>),
                          Folder(<<"A">>, <<>>),
                          File("mov", <<"b">>, <<"1">>) >>),
       File("pdf", <<"A">>, <<"3">>),
       File("csv", <<"a">>, <<"1">>) >>

isFolderItem(item) == item.type = "folder"

\* names a caller may pass to navigateToFolder: those of the tree and one
\* that names nothing
FolderNames == {<<"a">>, <<"A">>, <<"b">>, <<"a", "a">>}

SortOptions == [field : {"name", "date"}, direction : {"asc", "desc"}]

\* Array.prototype.find: the first element satisfying the test, as the
\* least of the indexes of the elements that satisfy it, or 0 for undefined
findIndex(matching) ==
    IF matching = {} THEN 0
    ELSE CHOOSE i \in matching : \A j \in matching : i <= j

\* the loop over currentPath in currentDocuments: the children of the
\* folder the path leads to, or not found
RECURSIVE walkPath(_, _)
walkPath(current, path) ==
    IF path = <<>> THEN [found |-> TRUE, items |-> current]
    ELSE LET i == findIndex({k \in 1..Len(current) :
                                /\ current[k].type = "folder"
                                /\ current[k].name = Head(path)})
         IN  IF i # 0 THEN walkPath(current[i].files, Tail(path))
             ELSE [found |-> FALSE, items |-> <<>>]

\* a comparator that forgets the direction of a sort by name
compareItemsNameAscOnly(a, b, option) ==
    IF option.field = "name" THEN localeCompare(a.name, b.name)
    ELSE IF a.type = "folder" /\ b.type = "folder" THEN 0
    ELSE IF a.type = "folder" THEN 1
    ELSE IF b.type = "folder" THEN -1
    ELSE LET comparison == localeCompare(a.added, b.added)
         IN  IF option.direction = "asc" THEN comparison ELSE 0 - comparison

\* a comparator whose direction also turns folders and files around
compareItemsFoldersByDirection(a, b, option) ==
    IF option.field = "name"
    THEN LET comparison == localeCompare(a.name, b.name)
         IN  IF option.direction = "asc" THEN comparison ELSE 0 - comparison
    ELSE LET comparison ==
                 IF a.type = "folder" /\ b.type = "folder" THEN 0
                 ELSE IF a.type = "folder" THEN 1
                 ELSE IF b.type = "folder" THEN -1
                 ELSE localeCompare(a.added, b.added)
         IN  IF option.direction = "asc" THEN comparison ELSE 0 - comparison

\* the comparator given to sort in currentDocuments
\* a comparator that forgets the direction of a sort by date
compareItemsDateAscOnly(a, b, option) ==
    IF option.field = "name"
    THEN LET comparison == localeCompare(a.name, b.name)
         IN  IF option.direction = "asc" THEN comparison ELSE 0 - comparison
    ELSE IF a.type = "folder" /\ b.type = "folder" THEN 0
    ELSE IF a.type = "folder" THEN 1
    ELSE IF b.type = "folder" THEN -1
    ELSE localeCompare(a.added, b.added)

compareItems(a, b, option) ==
    IF option.field = "name"
    THEN LET comparison == localeCompare(a.name, b.name)
         IN  IF option.direction = "asc" THEN comparison ELSE 0 - comparison
    ELSE IF a.type = "folder" /\ b.type = "folder" THEN 0
    ELSE IF a.type = "folder" THEN 1
    ELSE IF b.type = "folder" THEN -1
    ELSE LET comparison == localeCompare(a.added, b.added)
         IN  IF option.direction = "asc" THEN comparison ELSE 0 - comparison

\* Array.prototype.sort is stable: an element goes after every element
\* that does not compare greater than it
insertSorted(x, sorted, option) ==
    LET i == findIndex({k \in 1..Len(sorted) :
                           compareItems(sorted[k], x, option) > 0})
    IN  IF i = 0 THEN Append(sorted, x)
        ELSE SubSeq(sorted, 1, i - 1) \o <<x>> \o SubSeq(sorted, i, Len(sorted))

RECURSIVE sortItems(_, _)
sortItems(items, option) ==
    IF items = <<>> THEN <<>>
    ELSE insertSorted(items[Len(items)],
                      sortItems(SubSeq(items, 1, Len(items) - 1), option),
                      option)

\* the filter and the sort of currentDocuments, applied to the children
\* of a folder
\* a filter that compares the names as they are written
filterAndSortCaseSensitive(items, filter, option) ==
    LET Matches(item) == includes(item.name, filter)
        filtered == IF filter # <<>> THEN SelectSeq(items, Matches) ELSE items
    IN  sortItems(filtered, option)

filterAndSort(items, filter, option) ==
    LET Matches(item) == includes(toLowerCase(item.name), toLowerCase(filter))
        filtered == IF filter # <<>> THEN SelectSeq(items, Matches) ELSE items
    IN  sortItems(filtered, option)

\* a view that shows the root when the path leads nowhere
documentsOfRootFallback(path, filter, option) ==
    LET walked == walkPath(mockData, path)
    IN  IF ~walked.found THEN filterAndSort(mockData, filter, option)
        ELSE filterAndSort(walked.items, filter, option)

\* the useMemo body of currentDocuments, as a function of its dependencies
documentsOf(path, filter, option) ==
    LET walked == walkPath(mockData, path)
    IN  IF ~walked.found THEN <<>>
        ELSE filterAndSort(walked.items, filter, option)

currentDocuments == documentsOf(currentPath, debouncedFilter, sortOption)

canGoBack == Len(currentPath) > 0

hasSearchFilter == filterOptions.filename # <<>>

\* searchTerm: null
NoSearchTerm == <<"null">>

\* an empty-state classification that looks at the path first
emptyStateInfoPathFirst(filter, path) ==
    IF Len(path) > 0
    THEN [type |-> "empty-folder", message |-> "This folder is empty",
          named |-> <<>>, searchTerm |-> NoSearchTerm]
    ELSE IF filter # <<>>
    THEN [type |-> "search", message |-> "No documents match",
          named |-> filter, searchTerm |-> filter]
    ELSE [type |-> "root", message |-> "No documents found",
          named |-> <<>>, searchTerm |-> NoSearchTerm]

\* the useMemo body of emptyStateInfo, as a function of its dependencies;
\* named is the text the message quotes
emptyStateInfo(filter, path) ==
    IF filter # <<>>
    THEN [type |-> "search", message |-> "No documents match",
          named |-> filter, searchTerm |-> filter]
    ELSE IF Len(path) > 0
    THEN [type |-> "empty-folder", message |-> "This folder is empty",
          named |-> <<>>, searchTerm |-> NoSearchTerm]
    ELSE [type |-> "root", message |-> "No documents found",
          named |-> <<>>, searchTerm |-> NoSearchTerm]

----------------------------------------------------------------------------
(* Timers: setTimeout callbacks not yet run, in the order they were set.  *)
(* kind "debounce" carries the filename captured by the effect; kinds     *)
(* "into" and "back" carry the currentPath (and folder name) captured by  *)
(* the navigation callback when it was called.                            *)

debounceTimer(filename) ==
    [kind |-> "debounce", delay |-> DebounceDelay, remaining |-> DebounceDelay,
     path |-> <<>>, name |-> <<>>, value |-> filename]

intoTimer(path, folderName) ==
    [kind |-> "into", delay |-> NavForwardDelay, remaining |-> NavForwardDelay,
     path |-> path, name |-> folderName, value |-> <<>>]

backTimer(path) ==
    [kind |-> "back", delay |-> NavBackDelay, remaining |-> NavBackDelay,
     path |-> path, name |-> <<>>, value |-> <<>>]

removeAt(ts, i) == SubSeq(ts, 1, i - 1) \o SubSeq(ts, i + 1, Len(ts))

isNavTimer(t) == t.kind \in {"into", "back"}

isDebounceTimer(t) == t.kind = "debounce"

pendingNavigations == Len(SelectSeq(timers, isNavTimer))

\* a cleanup that clears nothing
keepTimers(ts) == ts

\* clearTimeout(timer) in the cleanup of the debounce effect
clearDebounce(ts) == LET Keep(t) == t.kind # "debounce" IN SelectSeq(ts, Keep)

\* the debounce effect, run after a render in which filterOptions.filename
\* changed: the old timer is cleared and a new one set
debounceEffect(ts, oldFilename, newFilename) ==
    IF newFilename = oldFilename THEN ts
    ELSE Append(clearDebounce(ts), debounceTimer(newFilename))

\* a due timer runs before every later-set timer that is due with a
\* delay at least as long
canRun(i) ==
    /\ timers[i].remaining = 0
    /\ \A j \in 1..(i - 1) :
          ~(timers[j].remaining = 0 /\ timers[j].delay <= timers[i].delay)

\* a hook without the reset effect
keepFocusIndex(documentsChanged) == currentFocusIndex

\* the reset effect of useKeyboardNavigation, run after a render in which
\* the documents array is a new one
resetFocusEffect(documentsChanged) ==
    IF documentsChanged THEN -1 ELSE currentFocusIndex

----------------------------------------------------------------------------
(* Search input validation *)

\* validation that tests the characters before the length
validateCharsBeforeLength(input) ==
    IF trim(input) = <<>> THEN [value |-> <<>>, error |-> NoError]
    ELSE IF hasForbiddenChar(input)
         THEN [value |-> <<>>, error |-> InvalidCharsMsg]
    ELSE IF Len(input) > MaxSearchLen
         THEN [value |-> <<>>, error |-> TooLongMsg]
    ELSE IF hasSpaceRun(input)
         THEN [value |-> <<>>, error |-> TooManySpacesMsg]
    ELSE [value |-> trim(input), error |-> NoError]

\* a validation without the test for runs of spaces
validateSearchInputAnySpaces(input) ==
    IF trim(input) = <<>> THEN [value |-> <<>>, error |-> NoError]
    ELSE IF Len(input) > MaxSearchLen
         THEN [value |-> <<>>, error |-> TooLongMsg]
    ELSE IF hasForbiddenChar(input)
         THEN [value |-> <<>>, error |-> InvalidCharsMsg]
    ELSE [value |-> trim(input), error |-> NoError]

validateSearchInput(input) ==
    IF trim(input) = <<>> THEN [value |-> <<>>, error |-> NoError]
    ELSE IF Len(input) > MaxSearchLen
         THEN [value |-> <<>>, error |-> TooLongMsg]
    ELSE IF hasForbiddenChar(input)
         THEN [value |-> <<>>, error |-> InvalidCharsMsg]
    ELSE IF hasSpaceRun(input)
         THEN [value |-> <<>>, error |-> TooManySpacesMsg]
    ELSE [value |-> trim(input), error |-> NoError]

\* a change handler that stores whatever the validation returned
filenameAlwaysValidated(filename, validatedInput, previous) == validatedInput

\* the filename handleFilterChange leaves in filterOptions
filenameAfterChange(filename, validatedInput, previous) ==
    IF validatedInput # <<>> \/ filename = <<>> THEN validatedInput
    ELSE previous

----------------------------------------------------------------------------
(* Operations of useDocuments *)

\* the state updates of handleFilterChange and the debounce effect they set off
applyFilterChange(filename) ==
    LET validated == validateSearchInput(filename)
        newFilename == filenameAfterChange(filename, validated.value,
                                           filterOptions.filename)
    IN  /\ searchError' = validated.error
        /\ filterOptions' = [filename |-> newFilename]
        /\ timers' = debounceEffect(timers, filterOptions.filename, newFilename)
        /\ UNCHANGED <<currentPath, sortOption, debouncedFilter, isLoading,
                       currentFocusIndex>>

handleFilterChange(filename) ==
    /\ applyFilterChange(filename)
    /\ UNCHANGED change

\* handleFilterChange called with the argument held in change
handleTypedChange ==
    /\ change.stage = "typed"
    /\ applyFilterChange(change.input)
    /\ change' = [change EXCEPT !.stage = "handled"]

\* clearSearch without its setSearchError('')
clearSearchKeepsError ==
    /\ filterOptions' = [filename |-> <<>>]
    /\ timers' = debounceEffect(timers, filterOptions.filename, <<>>)
    /\ UNCHANGED <<currentPath, sortOption, debouncedFilter, isLoading,
                   searchError, currentFocusIndex, change>>

\* the state updates of clearSearch and the debounce effect they set off
resetSearch ==
    /\ filterOptions' = [filename |-> <<>>]
    /\ searchError' = NoError
    /\ timers' = debounceEffect(timers, filterOptions.filename, <<>>)
    /\ UNCHANGED <<currentPath, sortOption, debouncedFilter, isLoading,
                   currentFocusIndex>>

clearSearch ==
    /\ resetSearch
    /\ UNCHANGED change

\* a change of the sort option that also empties the search box
setSortOptionAndClear(option) ==
    /\ sortOption' = option
    /\ filterOptions' = [filename |-> <<>>]
    /\ currentFocusIndex' = resetFocusEffect(TRUE)
    /\ UNCHANGED <<currentPath, debouncedFilter, isLoading, searchError,
                   timers, change>>

setSortOption(option) ==
    /\ sortOption' = option
    /\ currentFocusIndex' = resetFocusEffect(TRUE)
    /\ UNCHANGED <<currentPath, filterOptions, debouncedFilter, isLoading,
                   searchError, timers, change>>

\* a test that accepts any item of that name, folder or file
isItemInView(folderName) ==
    \E i \in 1..Len(currentDocuments) : currentDocuments[i].name = folderName

\* the test of navigateToFolder: the first item of the view with that name
\* exists and is a folder
isFolderInView(folderName) ==
    LET i == findIndex({k \in 1..Len(currentDocuments) :
                           currentDocuments[k].name = folderName})
    IN  i # 0 /\ isFolderItem(currentDocuments[i])

\* the state updates of navigateToFolder up to its await
beginNavigateToFolder(folderName) ==
    IF isFolderInView(folderName)
    THEN /\ pendingNavigations < MaxPending
         /\ isLoading' = TRUE
         /\ timers' = Append(timers, intoTimer(currentPath, folderName))
         /\ UNCHANGED <<currentPath, sortOption, filterOptions,
                        debouncedFilter, searchError, currentFocusIndex>>
    ELSE UNCHANGED <<engineVars, currentFocusIndex>>

\* navigateToFolder up to its await
navigateToFolder(folderName) ==
    /\ beginNavigateToFolder(folderName)
    /\ UNCHANGED change

\* the state updates of navigateBack up to its await
beginNavigateBack ==
    /\ pendingNavigations < MaxPending
    /\ isLoading' = TRUE
    /\ timers' = Append(timers, backTimer(currentPath))
    /\ UNCHANGED <<currentPath, sortOption, filterOptions, debouncedFilter,
                   searchError, currentFocusIndex>>

\* navigateBack up to its await
navigateBack ==
    /\ beginNavigateBack
    /\ UNCHANGED change

\* a navigation into a folder that reads the path when its delay is over
pathAfterIntoFromCurrent(t) == Append(currentPath, t.name)

\* the path a navigation writes when its delay is over
pathAfterInto(t) == Append(t.path, t.name)

\* a way back that always ends at the root
pathAfterBackToRoot(t) == <<>>

pathAfterBack(t) == SubSeq(t.path, 1, Len(t.path) - 1)

\* a commit that leaves the search box as it is
finishNavigationKeepsFilter(i, newPath) ==
    /\ currentPath' = newPath
    /\ searchError' = NoError
    /\ isLoading' = FALSE
    /\ timers' = removeAt(timers, i)
    /\ currentFocusIndex' = resetFocusEffect(TRUE)
    /\ UNCHANGED <<sortOption, filterOptions, debouncedFilter>>

\* the state updates of both navigations after their await, the finally
\* included
finishNavigation(i, newPath) ==
    /\ currentPath' = newPath
    /\ filterOptions' = [filename |-> <<>>]
    /\ searchError' = NoError
    /\ isLoading' = FALSE
    /\ timers' = debounceEffect(removeAt(timers, i), filterOptions.filename, <<>>)
    /\ currentFocusIndex' = resetFocusEffect(TRUE)
    /\ UNCHANGED <<sortOption, debouncedFilter>>

\* what both navigations do after their await
navigationCommit(i, newPath) ==
    /\ finishNavigation(i, newPath)
    /\ UNCHANGED change

navigateToFolderCommit(i) ==
    /\ timers[i].kind = "into"
    /\ canRun(i)
    /\ navigationCommit(i, pathAfterInto(timers[i]))

navigateBackCommit(i) ==
    /\ timers[i].kind = "back"
    /\ canRun(i)
    /\ navigationCommit(i, pathAfterBack(timers[i]))

\* the callback of the debounce timer: setDebouncedFilter and the render
\* that follows
commitDebounce(i) ==
    /\ timers[i].kind = "debounce"
    /\ canRun(i)
    /\ debouncedFilter' = timers[i].value
    /\ timers' = removeAt(timers, i)
    /\ currentFocusIndex' = resetFocusEffect(timers[i].value # debouncedFilter)
    /\ UNCHANGED <<currentPath, sortOption, filterOptions, isLoading,
                   searchError>>

debounceTimeout(i) ==
    /\ commitDebounce(i)
    /\ UNCHANGED change

\* the pending timers 100ms later
elapse ==
    /\ timers # <<>>
    /\ \A i \in 1..Len(timers) : timers[i].remaining > 0
    /\ timers' = [i \in 1..Len(timers) |->
                    [timers[i] EXCEPT !.remaining = @ - 100]]
    /\ UNCHANGED <<currentPath, sortOption, filterOptions, debouncedFilter,
                   isLoading, searchError, currentFocusIndex>>

\* 100ms pass: possible once every due callback has run
Tick ==
    /\ elapse
    /\ UNCHANGED change

----------------------------------------------------------------------------
(* useKeyboardNavigation.handleKeyDown *)

Keys == {"Backspace", "Escape", "ArrowDown", "ArrowUp", "Enter", "Home", "End"}

minOf(a, b) == IF a < b THEN a ELSE b

maxOf(a, b) == IF a > b THEN a ELSE b

\* ArrowDown without the Math.min
focusAfterArrowDownUnclamped(index, length) == index + 1

focusAfterArrowDown(index, length) == minOf(index + 1, length - 1)

\* ArrowUp without the Math.max
focusAfterArrowUpUnclamped(index) == index - 1

focusAfterArrowUp(index) == maxOf(index - 1, 0)

moveFocus(index) ==
    /\ currentFocusIndex' = index
    /\ UNCHANGED engineVars

\* keys with a case in the switch, Ctrl+f and Ctrl+h among them, and a key
\* without one
AllKeys == Keys \cup {"Ctrl+f", "Ctrl+h", "x"}

\* what a key event comes to: the collaborator called and its argument,
\* currentFocusIndex.current afterwards, the indexes focusDocumentItem was
\* called with, and whether preventDefault was called
Nothing(index) ==
    [call |-> "none", argument |-> <<>>, focus |-> index, requests |-> <<>>,
     prevented |-> FALSE]

Calls(collaborator, argument, index) ==
    [call |-> collaborator, argument |-> argument, focus |-> index,
     requests |-> <<>>, prevented |-> TRUE]

Focuses(index) ==
    [call |-> "none", argument |-> <<>>, focus |-> index,
     requests |-> <<index>>, prevented |-> TRUE]

Prevents(index) ==
    [call |-> "none", argument |-> <<>>, focus |-> index, requests |-> <<>>,
     prevented |-> TRUE]

\* a handler without the test of the event's target
targetNeverIgnored(targetIsInput) == FALSE

\* event.target instanceof HTMLInputElement || HTMLTextAreaElement
targetIgnored(targetIsInput) == targetIsInput

\* Backspace without the test of canGoBack
onBackspaceUnguarded(canBack, index) == Calls("onGoBack", <<>>, index)

onBackspace(canBack, index) ==
    IF canBack THEN Calls("onGoBack", <<>>, index) ELSE Nothing(index)

\* Escape without the test of hasSearchFilter
onEscapeUnguarded(hasFilter, index) == Calls("onClearSearch", <<>>, index)

onEscape(hasFilter, index) ==
    IF hasFilter THEN Calls("onClearSearch", <<>>, index) ELSE Nothing(index)

\* Enter without the test of the entry's type
onEnterAnyEntry(documents, index) ==
    IF index >= 0 /\ index < Len(documents)
    THEN Calls("onNavigateToFolder", documents[index + 1].name, index)
    ELSE Nothing(index)

onEnter(documents, index) ==
    IF /\ index >= 0
       /\ index < Len(documents)
       /\ documents[index + 1].type = "folder"
    THEN Calls("onNavigateToFolder", documents[index + 1].name, index)
    ELSE Nothing(index)

\* the switch of handleKeyDown
keyEffect(key, targetIsInput) ==
    LET documents == currentDocuments
        index == currentFocusIndex
    IN  IF targetIgnored(targetIsInput) THEN Nothing(index)
        ELSE CASE key = "Backspace" -> onBackspace(canGoBack, index)
               [] key = "Escape" -> onEscape(hasSearchFilter, index)
               [] key = "Ctrl+f" -> Calls("onFocusSearch", <<>>, index)
               [] key = "ArrowDown" ->
                    IF Len(documents) > 0
                    THEN Focuses(focusAfterArrowDown(index, Len(documents)))
                    ELSE Prevents(index)
               [] key = "ArrowUp" ->
                    IF Len(documents) > 0
                    THEN Focuses(focusAfterArrowUp(index))
                    ELSE Prevents(index)
               [] key = "Enter" -> onEnter(documents, index)
               [] key = "Home" ->
                    IF Len(documents) > 0 THEN Focuses(0) ELSE Nothing(index)
               [] key = "End" ->
                    IF Len(documents) > 0 THEN Focuses(Len(documents) - 1)
                    ELSE Nothing(index)
               [] key = "Ctrl+h" -> Prevents(index)
               [] OTHER -> Nothing(index)

\* the state updates of handleKeyDown, those of the collaborator it calls
\* included
keyDown(key, targetIsInput) ==
    \E effect \in {keyEffect(key, targetIsInput)} :
        CASE effect.call = "onGoBack" -> beginNavigateBack
          [] effect.call = "onClearSearch" -> resetSearch
          [] effect.call = "onNavigateToFolder" ->
               beginNavigateToFolder(effect.argument)
          [] OTHER -> moveFocus(effect.focus)

handleKeyDown(key, targetIsInput) ==
    /\ keyDown(key, targetIsInput)
    /\ UNCHANGED change

----------------------------------------------------------------------------
(* DocumentItem: a click on the item, or a key pressed on it *)

ItemInputs == {"click", "Enter", " ", "ArrowRight", "ArrowLeft", "x"}

\* an item that opens on a click whatever it is
itemEffectClickOpensAny(item, input) ==
    CASE input = "click" -> Calls("onFolderClick", item.name, 0)
      [] input \in {"Enter", " ", "ArrowRight"} ->
           IF item.type = "folder"
           THEN Calls("onFolderClick", item.name, 0)
           ELSE Nothing(0)
      [] input = "ArrowLeft" -> Prevents(0)
      [] OTHER -> Nothing(0)

\* handleClick and handleKeyDown of the item: the callback called and its
\* argument (a click prevents no default action; the item keeps no index)
itemEffect(item, input) ==
    CASE input = "click" ->
           IF item.type = "folder"
           THEN [Calls("onFolderClick", item.name, 0) EXCEPT
                    !.prevented = FALSE]
           ELSE Nothing(0)
      [] input \in {"Enter", " ", "ArrowRight"} ->
           IF item.type = "folder"
           THEN Calls("onFolderClick", item.name, 0)
           ELSE Nothing(0)
      [] input = "ArrowLeft" -> Prevents(0)
      [] OTHER -> Nothing(0)

----------------------------------------------------------------------------
(* DocumentList and focusDocumentItem: the elements of class document-item *)
(* in the page, each named by the index of the entry of documents it shows *)

VIRTUAL_SCROLLING_THRESHOLD == 50

itemSize == 80

overscanCount == 5

\* the height prop of the List
listHeight(length) == minOf(600, maxOf(200, length * 20))

\* the furthest the List scrolls
maxScrollTop(length) == maxOf(0, length * itemSize - listHeight(length))

\* the rows a List at rest renders at scrollTop: the rows in the viewport
\* and overscanCount rows on either side
windowOf(length, scrollTop) ==
    LET startIndex == scrollTop \div itemSize
        stopIndex == minOf(length - 1,
                           (scrollTop + listHeight(length) - 1) \div itemSize)
        first == maxOf(0, startIndex - overscanCount)
        last == minOf(length - 1, stopIndex + overscanCount)
    IN  [k \in 1..(last - first + 1) |-> first + k - 1]

\* the entries DocumentList renders, in the order of the page
renderedItems(length, scrollTop) ==
    IF length = 0 THEN <<>>
    ELSE IF length >= VIRTUAL_SCROLLING_THRESHOLD
    THEN windowOf(length, scrollTop)
    ELSE [k \in 1..length |-> k - 1]

\* focusDocumentItem(index): querySelectorAll('.document-item')[index], if
\* there is one, takes the focus
focusDocumentItem(index, rendered) ==
    IF index >= 0 /\ index < Len(rendered)
    THEN [focused |-> TRUE, shows |-> rendered[index + 1]]
    ELSE [focused |-> FALSE, shows |-> -1]

----------------------------------------------------------------------------
(* useKeyboardNavigation: the keydown listener on document.  A listener    *)
(* is the handleKeyDown function of one render, named by a number; the     *)
(* listener list of document holds a function at most once.                *)

\* most handleKeyDown functions told apart
MaxHandlers == 3

\* useCallback returns a new function when a dependency changed
nextHandler(handler) == (handler + 1) % MaxHandlers

addEventListener(listeners, handler) ==
    IF \E i \in 1..Len(listeners) : listeners[i] = handler THEN listeners
    ELSE Append(listeners, handler)

removeEventListener(listeners, handler) ==
    LET Other(h) == h # handler IN SelectSeq(listeners, Other)

\* a listener effect without its cleanup
listenerEffectWithoutCleanup(listeners, oldHandler, newHandler) ==
    addEventListener(listeners, newHandler)

\* the listener effect after a render with a new handleKeyDown: the cleanup
\* of the previous run, then the new run
listenerEffect(listeners, oldHandler, newHandler) ==
    addEventListener(removeEventListener(listeners, oldHandler), newHandler)

\* the state App renders from
reactState ==
    <<currentPath, sortOption, filterOptions, debouncedFilter, isLoading,
      searchError>>

\* the hook after a step: App passes a new onFocusSearch with every render,
\* so every render makes a new handleKeyDown and runs the listener effect
afterRender(hook, rendered) ==
    IF rendered
    THEN [hook EXCEPT !.handler = nextHandler(hook.handler),
                      !.listeners = listenerEffect(hook.listeners, hook.handler,
                                                   nextHandler(hook.handler))]
    ELSE hook

----------------------------------------------------------------------------
(* Specifications *)

\* search texts typed in the full system
Inputs == {<<>>, <<"B">>, <<" ">>, <<"<">>}

\* search texts for the validation: every short text, and texts with a run
\* of spaces or around the length limit, alone and combined
LongInputs ==
    { Repeat(" ", MaxSpaces),
      <<"a">> \o Repeat(" ", MaxSpaces),
      <<"a">> \o Repeat(" ", MaxSpaces) \o <<"a">>,
      Repeat(" ", MaxSpaces) \o <<"<">>,
      <<" ", "a", " ">>,
      <<"a", " ", " ", "B">>,
      Repeat("a", MaxSearchLen),
      <<" ">> \o Repeat("a", MaxSearchLen - 1),
      Repeat("a", MaxSearchLen + 1),
      Repeat(" ", MaxSearchLen + 1),
      Repeat("a", MaxSearchLen) \o <<"<">>,
      Repeat("a", MaxSearchLen - MaxSpaces) \o Repeat(" ", MaxSpaces) \o <<"a">>,
      Repeat("a", MaxSearchLen - MaxSpaces) \o Repeat(" ", MaxSpaces) \o <<"<">> }

ValidationInputs == StringsUpTo(MaxShortLen) \cup LongInputs

\* arguments of the followed call of handleFilterChange
TypedInputs == StringsUpTo(MaxTypedLen) \cup LongInputs

\* no call of handleFilterChange is being followed
NoChange ==
    [stage |-> "none", input |-> <<>>, previous |-> <<>>,
     previousError |-> NoError]

\* the state after the first render and its effects
Init ==
    /\ currentPath = <<>>
    /\ sortOption = [field |-> "name", direction |-> "asc"]
    /\ filterOptions = [filename |-> <<>>]
    /\ debouncedFilter = <<>>
    /\ isLoading = FALSE
    /\ searchError = NoError
    /\ timers = <<debounceTimer(<<>>)>>
    /\ currentFocusIndex = -1
    /\ change = NoChange

Next ==
    \/ \E filename \in Inputs : handleFilterChange(filename)
    \/ clearSearch
    \/ \E option \in SortOptions : setSortOption(option)
    \/ \E folderName \in FolderNames : navigateToFolder(folderName)
    \/ navigateBack
    \/ \E i \in 1..Len(timers) : navigateToFolderCommit(i)
    \/ \E i \in 1..Len(timers) : navigateBackCommit(i)
    \/ \E i \in 1..Len(timers) : debounceTimeout(i)
    \/ Tick
    \/ \E key \in Keys, targetIsInput \in BOOLEAN :
          handleKeyDown(key, targetIsInput)

Spec == Init /\ [][Next]_vars

\* the search field alone, with the inputs of the validation
NextFilter ==
    \/ \E filename \in ValidationInputs : handleFilterChange(filename)
    \/ clearSearch
    \/ \E i \in 1..Len(timers) : debounceTimeout(i)
    \/ Tick

SpecFilter == Init /\ [][NextFilter]_vars

\* filter texts in place when the followed call is made
PreviousFilters == {<<>>, <<"a">>, <<"B", "a">>}

SearchErrors == {NoError, TooLongMsg, InvalidCharsMsg, TooManySpacesMsg}

\* one call of handleFilterChange: a text is about to be typed into a search
\* field that holds a filter text, set less than 300ms ago, and the outcome
\* of the validation of the text typed before
InitValidate ==
    /\ currentPath = <<>>
    /\ sortOption = [field |-> "name", direction |-> "asc"]
    /\ filterOptions \in [filename : PreviousFilters]
    /\ debouncedFilter = <<>>
    /\ isLoading = FALSE
    /\ searchError \in SearchErrors
    /\ timers = <<debounceTimer(filterOptions.filename)>>
    /\ currentFocusIndex = -1
    /\ \E input \in TypedInputs :
          change = [stage |-> "typed", input |-> input,
                    previous |-> filterOptions.filename,
                    previousError |-> searchError]

NextValidate == handleTypedChange

SpecValidate == InitValidate /\ [][NextValidate]_vars

\* texts typed in a burst of filter changes
BurstInputs ==
    {<<>>, <<"a">>, <<"B">>, <<"a", " ">>, <<"a", "B">>, <<"<">>}

\* most changes of a burst that are counted
MaxCounted == 3

\* the search field from its first render on, with the course of the
\* current burst held in change: the debouncedFilter the burst began with,
\* the changes of the filter text in it, the time since the last of them
\* and the changes of debouncedFilter since it began
InitBurst ==
    /\ currentPath = <<>>
    /\ sortOption = [field |-> "name", direction |-> "asc"]
    /\ filterOptions = [filename |-> <<>>]
    /\ debouncedFilter = <<>>
    /\ isLoading = FALSE
    /\ searchError = NoError
    /\ timers = <<debounceTimer(<<>>)>>
    /\ currentFocusIndex = -1
    /\ change = [stage |-> "burst", before |-> <<>>, changes |-> 0,
                 idle |-> 0, recomputes |-> 0]

\* handleFilterChange in a burst: a change of the filter text less than
\* 300ms after the previous one goes on with the burst, a later one begins
\* a new burst
burstChange(filename) ==
    /\ applyFilterChange(filename)
    /\ change' =
          IF filterOptions'.filename = filterOptions.filename THEN change
          ELSE IF change.idle < DebounceDelay
               THEN [change EXCEPT !.idle = 0,
                                   !.changes = minOf(@ + 1, MaxCounted)]
          ELSE [change EXCEPT !.before = debouncedFilter, !.idle = 0,
                              !.changes = 1, !.recomputes = 0]

burstTimeout(i) ==
    /\ commitDebounce(i)
    /\ change' = [change EXCEPT !.recomputes =
                     IF debouncedFilter' # debouncedFilter
                     THEN minOf(@ + 1, MaxCounted) ELSE @]

burstTick ==
    /\ elapse
    /\ change' = [change EXCEPT !.idle = minOf(@ + 100, DebounceDelay)]

NextBurst ==
    \/ \E filename \in BurstInputs : burstChange(filename)
    \/ \E i \in 1..Len(timers) : burstTimeout(i)
    \/ burstTick

SpecBurst == InitBurst /\ [][NextBurst]_vars

\* folders the committed path can lead to
CommittedPaths == {<<>>, << <<"a">> >>, << <<"a">>, <<"A">> >>}

\* the search field in any folder and under any sort option, at rest: the
\* last navigation and the last change of the filter are over
InitSettle ==
    /\ currentPath \in CommittedPaths
    /\ sortOption \in SortOptions
    /\ filterOptions = [filename |-> <<>>]
    /\ debouncedFilter = <<>>
    /\ isLoading = FALSE
    /\ searchError = NoError
    /\ timers = <<>>
    /\ currentFocusIndex = -1
    /\ change = NoChange

NextSettle ==
    \/ \E filename \in BurstInputs : handleFilterChange(filename)
    \/ clearSearch
    \/ \E i \in 1..Len(timers) : debounceTimeout(i)
    \/ Tick

\* filter texts the view can have settled on
SettledFilters == {<<>>, <<"a">>, <<"B">>}

\* what the view holds under a name: nothing, a folder somewhere
\* (visible), and the kind of the first entry of that name
nameInView(name) ==
    LET named == {i \in 1..Len(currentDocuments) :
                     currentDocuments[i].name = name}
    IN  [visible |-> \E i \in named : currentDocuments[i].type = "folder",
         first |-> IF named = {} THEN "none"
                   ELSE IF \E i \in named :
                              /\ currentDocuments[i].type = "folder"
                              /\ \A j \in named : i <= j
                        THEN "folder"
                   ELSE "file"]

\* the state of the engine, its pending timers included
engineSnapshot ==
    <<currentPath, filterOptions, debouncedFilter, searchError, isLoading,
      timers>>

\* a caller awaits navigateToFolder(name) and then navigateBack(), from a
\* state at rest; change holds the state the trip starts from, the name and
\* what the view holds under it, how far the trip has come, and whether
\* navigateToFolder went past its test
InitTrip ==
    /\ currentPath \in CommittedPaths
    /\ sortOption \in SortOptions
    /\ filterOptions \in [filename : SettledFilters]
    /\ debouncedFilter = filterOptions.filename
    /\ isLoading = FALSE
    /\ searchError \in {NoError, InvalidCharsMsg}
    /\ timers = <<>>
    /\ currentFocusIndex = -1
    /\ \E folderName \in FolderNames :
          change = [stage |-> "start", from |-> currentPath,
                    before |-> engineSnapshot, name |-> folderName,
                    inView |-> nameInView(folderName), entered |-> FALSE]

tripInto ==
    /\ change.stage = "start"
    /\ beginNavigateToFolder(change.name)
    /\ change' = IF isFolderInView(change.name)
                 THEN [change EXCEPT !.stage = "into", !.entered = TRUE]
                 ELSE [change EXCEPT !.stage = "there"]

tripBack ==
    /\ change.stage = "there"
    /\ beginNavigateBack
    /\ change' = [change EXCEPT !.stage = "back"]

\* the awaited navigation is over
tripCommit(i) ==
    /\ canRun(i)
    /\ \/ /\ timers[i].kind = "into"
          /\ finishNavigation(i, pathAfterInto(timers[i]))
          /\ change' = [change EXCEPT !.stage = "there"]
       \/ /\ timers[i].kind = "back"
          /\ finishNavigation(i, pathAfterBack(timers[i]))
          /\ change' = [change EXCEPT !.stage = "returned"]

NextTrip ==
    \/ tripInto
    \/ tripBack
    \/ \E i \in 1..Len(timers) : tripCommit(i)
    \/ \E i \in 1..Len(timers) : debounceTimeout(i)
    \/ Tick

SpecTrip == InitTrip /\ [][NextTrip]_vars

\* most children of the folders that are sorted on their own
MaxItems == 3

\* children a folder can have: folders and files, with names that differ,
\* that are equal, and that differ in case only, and files of two dates
SomeItems ==
    {Folder(name, <<>>) : name \in {<<"a">>, <<"A", "b">>}}
        \cup {File("pdf", name, added) :
                 name \in {<<"a">>, <<"a", "b">>}, added \in {<<"1">>, <<"2">>}}

RECURSIVE ItemSeqsUpTo(_)
ItemSeqsUpTo(n) ==
    IF n = 0 THEN {<<>>}
    ELSE LET shorter == ItemSeqsUpTo(n - 1)
         IN  shorter \cup {Append(items, x) : items \in shorter, x \in SomeItems}

\* the filter and the sort alone: change holds the children of a folder and
\* a debounced filter text, and then the view under each sort option
InitSort ==
    /\ currentPath = <<>>
    /\ sortOption = [field |-> "name", direction |-> "asc"]
    /\ filterOptions = [filename |-> <<>>]
    /\ debouncedFilter = <<>>
    /\ isLoading = FALSE
    /\ searchError = NoError
    /\ timers = <<>>
    /\ currentFocusIndex = -1
    /\ \E items \in ItemSeqsUpTo(MaxItems), filter \in {<<>>, <<"b">>} :
          change = [stage |-> "stored", items |-> items, filter |-> filter,
                    views |-> [option \in SortOptions |-> <<>>]]

computeViews ==
    /\ change.stage = "stored"
    /\ change' = [change EXCEPT
                     !.stage = "viewed",
                     !.views = [option \in SortOptions |->
                                  filterAndSort(change.items, change.filter,
                                                option)]]
    /\ UNCHANGED <<engineVars, currentFocusIndex>>

NextSort == computeViews

SpecSort == InitSort /\ [][NextSort]_vars

\* one key event, from a state in which no navigation is pending: any
\* folder, sort option and error, a filter text that may not be debounced
\* yet, and the focus index anywhere the arrow keys can have put it; change
\* holds the key, whether the event's target is a text input and, once the
\* event is handled, the state it was handled in and what it came to
InitKey ==
    /\ currentPath \in CommittedPaths
    /\ sortOption \in SortOptions
    /\ filterOptions \in [filename : SettledFilters]
    /\ debouncedFilter \in SettledFilters
    /\ isLoading = FALSE
    /\ searchError \in {NoError, InvalidCharsMsg}
    /\ timers = IF debouncedFilter = filterOptions.filename THEN <<>>
                ELSE <<debounceTimer(filterOptions.filename)>>
    /\ currentFocusIndex \in -1..(Len(currentDocuments) - 1)
    /\ \E key \in AllKeys, targetIsInput \in BOOLEAN :
          change = [stage |-> "start", key |-> key,
                    targetIsInput |-> targetIsInput]

pressKey ==
    /\ change.stage = "start"
    /\ keyDown(change.key, change.targetIsInput)
    /\ change' = [stage |-> "handled", key |-> change.key,
                  targetIsInput |-> change.targetIsInput,
                  before |-> engineSnapshot,
                  documents |-> currentDocuments,
                  focus |-> currentFocusIndex,
                  effect |-> keyEffect(change.key, change.targetIsInput)]

NextKey ==
    \/ pressKey
    \/ \E i \in 1..Len(timers) : navigateToFolderCommit(i)
    \/ \E i \in 1..Len(timers) : navigateBackCommit(i)
    \/ \E i \in 1..Len(timers) : debounceTimeout(i)
    \/ Tick

SpecKey == InitKey /\ [][NextKey]_vars

\* one item of the list is clicked or gets a key: change holds the place of
\* the item and the input, and then the item and what came of it
InitItem ==
    /\ currentPath \in CommittedPaths
    /\ sortOption \in SortOptions
    /\ filterOptions \in [filename : SettledFilters]
    /\ debouncedFilter = filterOptions.filename
    /\ isLoading = FALSE
    /\ searchError = NoError
    /\ timers = <<>>
    /\ currentFocusIndex = -1
    /\ \E index \in 1..Len(currentDocuments), input \in ItemInputs :
          change = [stage |-> "start", index |-> index, input |-> input]

\* App passes navigateToFolder as onFolderClick
activateItem ==
    /\ change.stage = "start"
    /\ \E effect \in {itemEffect(currentDocuments[change.index],
                                   change.input)} :
          /\ IF effect.call = "onFolderClick"
             THEN beginNavigateToFolder(effect.argument)
             ELSE UNCHANGED <<engineVars, currentFocusIndex>>
          /\ change' = [stage |-> "handled", index |-> change.index,
                        input |-> change.input,
                        item |-> currentDocuments[change.index],
                        effect |-> effect]

NextItem ==
    \/ activateItem
    \/ \E i \in 1..Len(timers) : navigateToFolderCommit(i)
    \/ \E i \in 1..Len(timers) : debounceTimeout(i)
    \/ Tick

SpecItem == InitItem /\ [][NextItem]_vars

\* search texts typed between the other operations: around the limits of
\* the validation, and a few short ones
TermInputs ==
    { <<" ", "a", " ">>,
      <<"a">> \o Repeat(" ", MaxSpaces) \o <<"a">>,
      <<" ">> \o Repeat("a", MaxSearchLen - 1),
      Repeat("a", MaxSearchLen - 1) \o <<"<">> }

\* the operations of the hook in any order, with search texts around the
\* limits of the validation
NextTerm ==
    \/ \E filename \in TermInputs : handleFilterChange(filename)
    \/ clearSearch
    \/ \E option \in SortOptions : setSortOption(option)
    \/ \E folderName \in FolderNames : navigateToFolder(folderName)
    \/ navigateBack
    \/ \E i \in 1..Len(timers) : navigateToFolderCommit(i)
    \/ \E i \in 1..Len(timers) : navigateBackCommit(i)
    \/ \E i \in 1..Len(timers) : debounceTimeout(i)
    \/ Tick

SpecTerm == Init /\ [][NextTerm]_vars

\* longest path rendered
MaxPathLen == 2

\* names a path may hold: of folders and of files of the tree, at the
\* right level or not, and one that names nothing
PathNames == FolderNames \cup {<<"A", "b">>}

RECURSIVE PathsUpTo(_)
PathsUpTo(n) ==
    IF n = 0 THEN {<<>>}
    ELSE LET shorter == PathsUpTo(n - 1)
         IN  shorter \cup {Append(path, name) :
                              path \in shorter, name \in PathNames}

\* the hook rendered with some path, leading to a folder or not: change
\* holds the view once it is computed
InitResolve ==
    /\ currentPath \in PathsUpTo(MaxPathLen)
    /\ sortOption \in SortOptions
    /\ filterOptions \in [filename : SettledFilters]
    /\ debouncedFilter = filterOptions.filename
    /\ isLoading = FALSE
    /\ searchError = NoError
    /\ timers = <<>>
    /\ currentFocusIndex = -1
    /\ change = [stage |-> "stored", documents |-> <<>>]

renderView ==
    /\ change.stage = "stored"
    /\ change' = [stage |-> "rendered", documents |-> currentDocuments]
    /\ UNCHANGED <<engineVars, currentFocusIndex>>

NextResolve == renderView

SpecResolve == InitResolve /\ [][NextResolve]_vars

\* longest list rendered
MaxListLen == 51

\* list lengths below and from the threshold of the virtual scrolling
ListLengths == {1, 3} \cup (VIRTUAL_SCROLLING_THRESHOLD - 1)..MaxListLen

\* a list of some length is rendered and scrolled, and a focus request for
\* one of its indexes is made: change holds the length, the scroll
\* position, the index and what the request came to
InitFocus ==
    /\ currentPath = <<>>
    /\ sortOption = [field |-> "name", direction |-> "asc"]
    /\ filterOptions = [filename |-> <<>>]
    /\ debouncedFilter = <<>>
    /\ isLoading = FALSE
    /\ searchError = NoError
    /\ timers = <<>>
    /\ currentFocusIndex = -1
    /\ \E length \in ListLengths :
          change = [stage |-> "rendered", length |-> length, scrollTop |-> 0,
                    index |-> -1,
                    result |-> [focused |-> FALSE, shows |-> -1]]

\* the list is scrolled by a number of rows
scrollList(rows) ==
    /\ change.stage = "rendered"
    /\ change.length >= VIRTUAL_SCROLLING_THRESHOLD
    /\ rows * itemSize <= maxScrollTop(change.length)
    /\ change' = [change EXCEPT !.scrollTop = rows * itemSize]
    /\ UNCHANGED <<engineVars, currentFocusIndex>>

\* a key of the list sets the focus index and requests the focus for it
requestFocus(index) ==
    /\ change.stage = "rendered"
    /\ index < change.length
    /\ currentFocusIndex' = index
    /\ change' = [change EXCEPT
                    !.stage = "requested",
                    !.index = index,
                    !.result = focusDocumentItem(index,
                                   renderedItems(change.length,
                                                 change.scrollTop))]
    /\ UNCHANGED engineVars

NextFocus ==
    \/ \E rows \in 1..MaxListLen : scrollList(rows)
    \/ \E index \in 0..(MaxListLen - 1) : requestFocus(index)

SpecFocus == InitFocus /\ [][NextFocus]_vars

\* one call of navigateToFolder and the time after it: change holds the
\* name, and from the call on the path and the view at the call, what the
\* view held under the name, whether a debounce was pending, and whether
\* the navigation has committed
InitNav ==
    /\ currentPath \in CommittedPaths
    /\ sortOption \in SortOptions
    /\ filterOptions \in [filename : SettledFilters]
    /\ debouncedFilter \in SettledFilters
    /\ isLoading = FALSE
    /\ searchError \in {NoError, InvalidCharsMsg}
    /\ timers = IF debouncedFilter = filterOptions.filename THEN <<>>
                ELSE <<debounceTimer(filterOptions.filename)>>
    /\ currentFocusIndex = -1
    /\ \E folderName \in FolderNames :
          change = [stage |-> "start", name |-> folderName]

navCall ==
    /\ change.stage = "start"
    /\ beginNavigateToFolder(change.name)
    /\ change' = [stage |-> "called", name |-> change.name,
                  path |-> currentPath,
                  documents |-> currentDocuments,
                  inView |-> nameInView(change.name),
                  debouncePending |->
                      debouncedFilter # filterOptions.filename]

navCommit(i) ==
    /\ timers[i].kind = "into"
    /\ canRun(i)
    /\ finishNavigation(i, pathAfterInto(timers[i]))
    /\ change' = [change EXCEPT !.stage = "committed"]

NextNav ==
    \/ navCall
    \/ \E i \in 1..Len(timers) : navCommit(i)
    \/ \E i \in 1..Len(timers) : debounceTimeout(i)
    \/ Tick

SpecNav == InitNav /\ [][NextNav]_vars

\* two navigations, one after the other or overlapping: change holds, in
\* the order of the calls, what was called with which name, the path at
\* the call and whether a navigation was pending then, and, in the order of
\* the commits, which call committed and the path it wrote
InitRace ==
    /\ currentPath \in CommittedPaths
    /\ sortOption \in SortOptions
    /\ filterOptions = [filename |-> <<>>]
    /\ debouncedFilter = <<>>
    /\ isLoading = FALSE
    /\ searchError = NoError
    /\ timers = <<>>
    /\ currentFocusIndex = -1
    /\ change = [issued |-> <<>>, written |-> <<>>]

raceInto(folderName) ==
    /\ Len(change.issued) < 2
    /\ isFolderInView(folderName)
    /\ beginNavigateToFolder(folderName)
    /\ change' = [change EXCEPT !.issued =
                     Append(@, [kind |-> "into", name |-> folderName,
                                captured |-> currentPath,
                                overlapping |-> pendingNavigations > 0])]

raceBack ==
    /\ Len(change.issued) < 2
    /\ beginNavigateBack
    /\ change' = [change EXCEPT !.issued =
                     Append(@, [kind |-> "back", name |-> <<>>,
                                captured |-> currentPath,
                                overlapping |-> pendingNavigations > 0])]

\* the call whose timer is the i-th of the pending timers: the pending
\* navigation timers stand in the order of the calls not yet committed
callOfTimer(i) ==
    LET calls == [k \in 1..Len(change.issued) |-> k]
        Uncommitted(k) ==
            \A j \in 1..Len(change.written) : change.written[j].call # k
        rank == Len(SelectSeq(SubSeq(timers, 1, i), isNavTimer))
    IN  SelectSeq(calls, Uncommitted)[rank]

raceCommit(i) ==
    /\ isNavTimer(timers[i])
    /\ canRun(i)
    /\ finishNavigation(i, IF timers[i].kind = "into"
                           THEN pathAfterInto(timers[i])
                           ELSE pathAfterBack(timers[i]))
    /\ change' = [change EXCEPT !.written =
                     Append(@, [call |-> callOfTimer(i),
                                path |-> currentPath'])]

NextRace ==
    \/ \E folderName \in FolderNames : raceInto(folderName)
    \/ raceBack
    \/ \E i \in 1..Len(timers) : raceCommit(i)
    \/ Tick

\* time passes, and a timer that is due runs its callback
SpecRace ==
    /\ InitRace
    /\ [][NextRace]_vars
    /\ WF_vars(Tick)
    /\ WF_vars(\E i \in 1..Len(timers) : raceCommit(i))

\* the hook from before its mount on, with the listener list of document
\* held in change: whether the hook is mounted, the handleKeyDown of the
\* last render, the listeners registered, the last key event dispatched,
\* the listeners it still has to be handed to and the number it was
\* handed to
InitListen ==
    /\ currentPath = <<>>
    /\ sortOption = [field |-> "name", direction |-> "asc"]
    /\ filterOptions = [filename |-> <<>>]
    /\ debouncedFilter = <<>>
    /\ isLoading = FALSE
    /\ searchError = NoError
    /\ timers = <<>>
    /\ currentFocusIndex = -1
    /\ change = [mounted |-> FALSE, handler |-> 0, listeners |-> <<>>,
                 key |-> "none", targetIsInput |-> FALSE, pending |-> <<>>,
                 handled |-> 0, whileMounted |-> FALSE]

\* the first commit of a mount: fresh state, and the effects run
listenMount ==
    /\ ~change.mounted
    /\ change.pending = <<>>
    /\ currentPath' = <<>>
    /\ sortOption' = [field |-> "name", direction |-> "asc"]
    /\ filterOptions' = [filename |-> <<>>]
    /\ debouncedFilter' = <<>>
    /\ isLoading' = FALSE
    /\ searchError' = NoError
    /\ timers' = <<debounceTimer(<<>>)>>
    /\ currentFocusIndex' = -1
    /\ change' = [change EXCEPT
                    !.mounted = TRUE,
                    !.handler = nextHandler(change.handler),
                    !.listeners = addEventListener(change.listeners,
                                      nextHandler(change.handler))]

\* unmount: the cleanups of the effects run
listenUnmount ==
    /\ change.mounted
    /\ change.pending = <<>>
    /\ timers' = clearDebounce(timers)
    /\ UNCHANGED <<currentPath, sortOption, filterOptions, debouncedFilter,
                   isLoading, searchError, currentFocusIndex>>
    /\ change' = [change EXCEPT
                    !.mounted = FALSE,
                    !.listeners = removeEventListener(change.listeners,
                                                      change.handler)]

listenIdle ==
    /\ change.mounted
    /\ change.pending = <<>>

listenFilterChange(filename) ==
    /\ listenIdle
    /\ applyFilterChange(filename)
    /\ change' = afterRender(change, reactState' # reactState)

listenDebounceTimeout(i) ==
    /\ listenIdle
    /\ commitDebounce(i)
    /\ change' = afterRender(change, reactState' # reactState)

listenNavigateToFolderCommit(i) ==
    /\ listenIdle
    /\ timers[i].kind = "into"
    /\ canRun(i)
    /\ finishNavigation(i, pathAfterInto(timers[i]))
    /\ change' = afterRender(change, reactState' # reactState)

listenNavigateBackCommit(i) ==
    /\ listenIdle
    /\ timers[i].kind = "back"
    /\ canRun(i)
    /\ finishNavigation(i, pathAfterBack(timers[i]))
    /\ change' = afterRender(change, reactState' # reactState)

listenTick ==
    /\ listenIdle
    /\ elapse
    /\ UNCHANGED change

\* a keydown event reaches document: the listeners registered at that
\* moment are the ones it is handed to
listenDispatch(key, targetIsInput) ==
    /\ change.pending = <<>>
    /\ change' = [change EXCEPT !.key = key,
                                !.targetIsInput = targetIsInput,
                                !.pending = change.listeners,
                                !.handled = 0,
                                !.whileMounted = change.mounted]
    /\ UNCHANGED <<engineVars, currentFocusIndex>>

\* the event is handed to the next of its listeners
listenDeliver ==
    /\ change.pending # <<>>
    /\ keyDown(change.key, change.targetIsInput)
    /\ change' = afterRender([change EXCEPT !.pending = Tail(@),
                                            !.handled = @ + 1],
                             reactState' # reactState)

\* keys dispatched to the listener, and search texts typed meanwhile
ListenKeys == {"Backspace", "Escape", "ArrowDown", "Enter"}

ListenInputs == {<<"B">>, <<"<">>}

NextListen ==
    \/ listenMount
    \/ listenUnmount
    \/ \E filename \in ListenInputs : listenFilterChange(filename)
    \/ \E i \in 1..Len(timers) : listenDebounceTimeout(i)
    \/ \E i \in 1..Len(timers) : listenNavigateToFolderCommit(i)
    \/ \E i \in 1..Len(timers) : listenNavigateBackCommit(i)
    \/ listenTick
    \/ \E key \in ListenKeys : listenDispatch(key, FALSE)
    \/ listenDeliver

SpecListen == InitListen /\ [][NextListen]_vars

\* time passes, and a timer that is due runs its callback
SpecSettle ==
    /\ InitSettle
    /\ [][NextSettle]_vars
    /\ WF_vars(Tick)
    /\ WF_vars(\E i \in 1..Len(timers) : debounceTimeout(i))

----------------------------------------------------------------------------
(* Claims *)

\* a navigation commits in this step
NavigationCommits ==
    \E i \in 1..Len(timers) : navigateToFolderCommit(i) \/ navigateBackCommit(i)

\* C1: in the state right after a navigation commits, the filter text,
\* debouncedFilter and searchError are all empty
C1_FilterStateEmptyAfterCommit ==
    [][NavigationCommits =>
         /\ filterOptions'.filename = <<>>
         /\ debouncedFilter' = <<>>
         /\ searchError' = NoError]_vars

\* C2: isLoading is true whenever at least one navigation is pending
C2_LoadingWhilePending == pendingNavigations > 0 => isLoading

\* C3: the focus index is -1 when documents is empty, and otherwise at
\* least -1 and less than the length of documents
C3_FocusIndexInRange ==
    LET length == Len(currentDocuments)
    IN  IF length = 0 THEN currentFocusIndex = -1
        ELSE currentFocusIndex >= -1 /\ currentFocusIndex < length

\* the focus is on the last entry of a filtered, date-sorted view of a folder
C3_Witness ==
    /\ currentPath # <<>>
    /\ debouncedFilter # <<>>
    /\ sortOption.field = "date"
    /\ Len(currentDocuments) >= 2
    /\ currentFocusIndex = Len(currentDocuments) - 1

\* each segment of the path names a folder among the children of the
\* previous level, starting at the root
RECURSIVE ResolvesIn(_, _)
ResolvesIn(level, path) ==
    \/ path = <<>>
    \/ \E i \in 1..Len(level) :
          /\ level[i].type = "folder"
          /\ level[i].name = Head(path)
          /\ ResolvesIn(level[i].files, Tail(path))

\* C4: the committed currentPath resolves in the tree
C4_PathResolves == ResolvesIn(mockData, currentPath)

\* two navigations are pending at once, two levels below the root
C4_Witness == Len(currentPath) = 2 /\ pendingNavigations >= 2

engineState ==
    <<currentPath, filterOptions, debouncedFilter, searchError, isLoading>>

\* C5: navigateBack with an empty currentPath changes nothing, neither at
\* the call nor when its delay is over
C5_BackAtRootIsNoOp ==
    [][/\ (currentPath = <<>> /\ navigateBack) => UNCHANGED engineState
       /\ \A i \in 1..Len(timers) :
             (timers[i].path = <<>> /\ navigateBackCommit(i))
                => UNCHANGED engineState]_vars

\* C6 as claimed: right after clearSearch the filter text, debouncedFilter
\* and searchError are all empty
C6_ClearSearchResetsAllAtOnce ==
    [][clearSearch =>
         /\ filterOptions'.filename = <<>>
         /\ debouncedFilter' = <<>>
         /\ searchError' = NoError]_vars

\* C6 as amended: right after clearSearch the filter text and searchError
\* are empty; debouncedFilter is what it was before the call, and when it
\* is not empty the one pending debounce timer carries the empty text
C6_ClearSearchResetsFilterAndError ==
    [][clearSearch =>
         /\ filterOptions'.filename = <<>>
         /\ searchError' = NoError
         /\ debouncedFilter' = debouncedFilter
         /\ debouncedFilter' # <<>> =>
               /\ \E i \in 1..Len(timers') : timers'[i].kind = "debounce"
               /\ \A i \in 1..Len(timers') :
                     timers'[i].kind = "debounce" => timers'[i].value = <<>>]_vars

\* the search was cleared while the view is still filtered: the debounce
\* timer has just been set again
C6_Witness ==
    /\ filterOptions.filename = <<>>
    /\ searchError = NoError
    /\ debouncedFilter # <<>>
    /\ \E i \in 1..Len(timers) :
          timers[i].kind = "debounce" /\ timers[i].remaining = DebounceDelay

\* the rules of the validation, stated on the input itself
isBlank(input) == \A i \in 1..Len(input) : input[i] \in WhitespaceChars

isTooLong(input) == Len(input) > MaxSearchLen

hasForbidden(input) == \E i \in 1..Len(input) : input[i] \in ForbiddenChars

hasLongSpaceRun(input) ==
    \E i \in 1..Len(input) :
        /\ i + 2 <= Len(input)
        /\ \A k \in i..(i + 2) : input[k] \in WhitespaceChars

isRejected(input) ==
    ~isBlank(input) /\ (isTooLong(input) \/ hasForbidden(input)
                           \/ hasLongSpaceRun(input))

violatedRuleMessages(input) ==
    {m \in {TooLongMsg, InvalidCharsMsg, TooManySpacesMsg} :
        \/ m = TooLongMsg /\ isTooLong(input)
        \/ m = InvalidCharsMsg /\ hasForbidden(input)
        \/ m = TooManySpacesMsg /\ hasLongSpaceRun(input)}

\* the followed call has been handled
Handled == change.stage = "handled"

\* C7: handleFilterChange with a rejected input leaves the filter text as
\* it was and sets searchError to the message of a rule the input violates
C7_RejectedInputKeepsFilter ==
    (Handled /\ isRejected(change.input)) =>
        /\ filterOptions.filename = change.previous
        /\ searchError \in violatedRuleMessages(change.input)

\* an input was rejected while a filter text was in place and no error shown
C7_Witness ==
    /\ Handled
    /\ isRejected(change.input)
    /\ change.previous # <<>>
    /\ change.previousError = NoError

\* C8: handleFilterChange with a non-empty input of whitespace only sets
\* the filter text to the empty string and leaves searchError empty
C8_BlankInputEmptiesFilter ==
    (Handled /\ change.input # <<>> /\ isBlank(change.input)) =>
        /\ filterOptions.filename = <<>>
        /\ searchError = NoError

\* the outcome of the validation by the precedence of its rules
firstRuleMessage(input) ==
    CASE isBlank(input) -> NoError
      [] isTooLong(input) -> TooLongMsg
      [] hasForbidden(input) -> InvalidCharsMsg
      [] hasLongSpaceRun(input) -> TooManySpacesMsg
      [] OTHER -> NoError

\* C9: searchError after handleFilterChange is the message of the first
\* rule, in the order blank, too long, forbidden character, run of spaces,
\* that the input matches
C9_FirstMatchingRuleWins ==
    Handled => searchError = firstRuleMessage(change.input)

\* an input that violates all three rules was rejected for its length,
\* with no error shown before
C9_Witness ==
    /\ Handled
    /\ violatedRuleMessages(change.input)
          = {TooLongMsg, InvalidCharsMsg, TooManySpacesMsg}
    /\ change.previousError = NoError
    /\ searchError = TooLongMsg

\* the input without its leading and trailing whitespace: the part from
\* the first to the last character that is not whitespace
strippedOf(input) ==
    LET solid == {i \in 1..Len(input) : input[i] \notin WhitespaceChars}
        first == CHOOSE i \in solid : \A j \in solid : i <= j
        last == CHOOSE i \in solid : \A j \in solid : i >= j
    IN  IF solid = {} THEN <<>> ELSE SubSeq(input, first, last)

\* C10: handleFilterChange with a valid non-empty input leaves searchError
\* empty and sets the filter text to the input without its leading and
\* trailing whitespace
C10_ValidInputHealsError ==
    (Handled /\ ~isBlank(change.input) /\ ~isRejected(change.input)) =>
        /\ searchError = NoError
        /\ filterOptions.filename = strippedOf(change.input)

\* a valid text with whitespace around it was accepted while an error of the
\* text typed before was shown
C10_Witness ==
    /\ Handled
    /\ ~isBlank(change.input)
    /\ ~isRejected(change.input)
    /\ change.input # strippedOf(change.input)
    /\ change.previousError # NoError
    /\ searchError = NoError


\* no debounce timer is waiting
NoDebouncePending == \A i \in 1..Len(timers) : timers[i].kind # "debounce"

containsIgnoringCase(name, text) ==
    \E offset \in 0..(Len(name) - Len(text)) :
        \A k \in 1..Len(text) : lowerChar(name[offset + k]) = lowerChar(text[k])

\* the children of the current folder whose names contain the filter text
matchingChildren ==
    LET children == walkPath(mockData, currentPath).items
    IN  {children[i] : i \in {k \in 1..Len(children) :
            containsIgnoringCase(children[k].name, filterOptions.filename)}}

\* debouncedFilter is the filter text and the view shows the matching
\* children, each once
Settled ==
    /\ debouncedFilter = filterOptions.filename
    /\ {currentDocuments[i] : i \in 1..Len(currentDocuments)} = matchingChildren
    /\ Len(currentDocuments) = Cardinality(matchingChildren)

\* C12: unless the filter text keeps changing for ever, from some time on
\* debouncedFilter equals the filter text and the view shows exactly the
\* children of the current folder whose names contain it
C12_FilterSettles ==
    ([]<><<filterOptions' # filterOptions>>_vars) \/ <>[]Settled

\* the view has settled on a filter text that some children of a folder
\* below the root match and others do not
C12_Witness ==
    /\ currentPath # <<>>
    /\ filterOptions.filename # <<>>
    /\ Settled
    /\ Len(currentDocuments) > 0
    /\ Len(currentDocuments) < Len(walkPath(mockData, currentPath).items)


\* what C13 says of the states after each navigation of the trip
TripRestores ==
    /\ change.stage \in {"there", "returned"} =>
          filterOptions.filename = <<>> /\ searchError = NoError
    /\ change.stage = "returned" => currentPath = change.from

\* C13 as claimed: for every name of a folder in the view, after
\* navigateToFolder(name) the filter text and searchError are empty, and
\* after the navigateBack() that follows they are empty and currentPath is
\* what it was before the two
C13_RoundTripForEveryVisibleFolder == change.inView.visible => TripRestores

\* C13 as amended: the same, for every name whose first entry in the view
\* is a folder
C13_RoundTripForFirstMatchFolder ==
    change.inView.first = "folder" => TripRestores

\* a trip from a folder below the root, begun with a filter text in place,
\* has come back
C13_Witness ==
    /\ change.stage = "returned"
    /\ change.entered
    /\ change.from # <<>>
    /\ currentPath = change.from
    /\ debouncedFilter # <<>>


Reverse(seq) == [i \in 1..Len(seq) |-> seq[Len(seq) + 1 - i]]

Viewed == change.stage = "viewed"

viewByNameAsc == change.views[[field |-> "name", direction |-> "asc"]]

viewByNameDesc == change.views[[field |-> "name", direction |-> "desc"]]

namesOf(view) == [i \in 1..Len(view) |-> view[i].name]

\* two entries of the view have the same name
hasEqualNames(view) ==
    \E i, j \in 1..Len(view) : i # j /\ view[i].name = view[j].name

\* entries of the same name are in the order in which the folder holds them
keepsStoredOrder(view, items) ==
    \A i, j \in 1..Len(view) :
        (i < j /\ view[i].name = view[j].name) =>
            \E k, l \in 1..Len(items) :
                k < l /\ items[k] = view[i] /\ items[l] = view[j]

\* C14 as claimed: the view sorted by name descending is the reverse of the
\* view sorted by name ascending, entry by entry, for every folder content
\* and filter
C14_NameDescIsExactReverse ==
    Viewed => viewByNameDesc = Reverse(viewByNameAsc)

\* C14 as amended: the names of the view sorted by name descending are the
\* names of the view sorted by name ascending in reverse; the entries are
\* the reverse too when no two of them have the same name, and entries of
\* the same name keep their stored order in both directions
C14_NameDescReversesNames ==
    Viewed =>
        /\ namesOf(viewByNameDesc) = Reverse(namesOf(viewByNameAsc))
        /\ ~hasEqualNames(viewByNameAsc) =>
              viewByNameDesc = Reverse(viewByNameAsc)
        /\ keepsStoredOrder(viewByNameAsc, change.items)
        /\ keepsStoredOrder(viewByNameDesc, change.items)

\* a folder and a file of the same name, and an entry of another name,
\* have been sorted by name in both directions
C14_Witness ==
    /\ Viewed
    /\ Len(viewByNameAsc) = MaxItems
    /\ hasEqualNames(viewByNameAsc)
    /\ \E i, j \in 1..Len(viewByNameAsc) :
          viewByNameAsc[i].name # viewByNameAsc[j].name
    /\ viewByNameDesc # Reverse(viewByNameAsc)

C16_NoOpWhenNotAFolder ==
    (change.stage \in {"into", "there"} /\ change.inView.first # "folder") =>
        engineSnapshot = change.before

\* navigateToFolder was called, with an error showing, with the name of a
\* folder that comes after a file of the same name in the view
C16_Witness ==
    /\ change.stage = "there"
    /\ change.inView.first = "file"
    /\ change.inView.visible
    /\ ~change.entered
    /\ searchError # NoError
    /\ engineSnapshot = change.before


\* C17: a step in which the displayed documents are recomputed, because the
\* committed path, the sort option or debouncedFilter changes, leaves the
\* focus index at -1
C17_RecomputeResetsFocus ==
    [][(\/ currentPath' # currentPath
        \/ sortOption' # sortOption
        \/ debouncedFilter' # debouncedFilter) => currentFocusIndex' = -1]_vars

\* no entry has the focus in a view that is not empty, of a folder below
\* the root, filtered and not in the first sort order
C17_Witness ==
    /\ currentFocusIndex = -1
    /\ Len(currentDocuments) > 0
    /\ currentPath # <<>>
    /\ debouncedFilter # <<>>
    /\ sortOption # [field |-> "name", direction |-> "asc"]

\* the key event has been handled
KeyHandled == change.stage = "handled"

\* C18: a key event whose target is a text input calls no collaborator,
\* does not prevent the default action and changes neither the focus index
\* nor the state of the engine, whatever the key
C18_InputTargetIgnored ==
    [][(pressKey /\ change.targetIsInput) =>
          /\ change'.effect.call = "none"
          /\ ~change'.effect.prevented
          /\ currentFocusIndex' = currentFocusIndex
          /\ engineSnapshot' = engineSnapshot]_vars

\* Enter went to a text input while the focus index was on a folder, and
\* nothing was called
C18_Witness ==
    /\ KeyHandled
    /\ change.targetIsInput
    /\ change.key = "Enter"
    /\ change.focus >= 0
    /\ change.documents[change.focus + 1].type = "folder"
    /\ change.effect.call = "none"
    /\ engineSnapshot = change.before

\* the focus index is on a folder of the displayed documents
focusOnFolder ==
    /\ currentFocusIndex >= 0
    /\ currentFocusIndex < Len(currentDocuments)
    /\ currentDocuments[currentFocusIndex + 1].type = "folder"

\* C19: Enter, on a target that is not a text input, calls
\* onNavigateToFolder if and only if the focus index is on a folder of the
\* displayed documents, and then with that entry's name; otherwise it calls
\* nothing and leaves the focus index as it was
C19_EnterNavigatesFocusedFolder ==
    [][(pressKey /\ change.key = "Enter" /\ ~change.targetIsInput) =>
          /\ change'.effect.call = "onNavigateToFolder" <=> focusOnFolder
          /\ focusOnFolder =>
                change'.effect.argument
                    = currentDocuments[currentFocusIndex + 1].name
          /\ ~focusOnFolder =>
                /\ change'.effect.call = "none"
                /\ currentFocusIndex' = currentFocusIndex]_vars

\* Enter was pressed with the focus on a folder that is not the first entry
\* of the view, and its navigation has begun
C19_Witness ==
    /\ KeyHandled
    /\ change.key = "Enter"
    /\ ~change.targetIsInput
    /\ change.focus >= 1
    /\ change.effect.call = "onNavigateToFolder"
    /\ change.effect.argument = change.documents[change.focus + 1].name
    /\ pendingNavigations = 1

\* C20: Backspace, on a target that is not a text input, calls onGoBack if
\* and only if canGoBack is true; after a Backspace pressed while the
\* committed path is empty no navigation is pending, isLoading is false and
\* the filter text is what it was
C20_BackspaceOnlyWhenCanGoBack ==
    /\ [][(pressKey /\ change.key = "Backspace" /\ ~change.targetIsInput) =>
             (change'.effect.call = "onGoBack" <=> Len(currentPath) > 0)]_vars
    /\ [](( /\ KeyHandled
            /\ change.key = "Backspace"
            /\ change.before[1] = <<>> ) =>
              /\ pendingNavigations = 0
              /\ ~isLoading
              /\ currentPath = <<>>
              /\ filterOptions = change.before[2])

\* Backspace was pressed at the root with a filter text in place
C20_Witness ==
    /\ KeyHandled
    /\ change.key = "Backspace"
    /\ ~change.targetIsInput
    /\ change.before[1] = <<>>
    /\ change.effect.call = "none"
    /\ filterOptions.filename # <<>>


\* C21: Escape, on a target that is not a text input, calls onClearSearch
\* if and only if the filter text is not empty; with an empty filter text it
\* calls nothing and changes no state
C21_EscapeOnlyWithFilter ==
    [][(pressKey /\ change.key = "Escape" /\ ~change.targetIsInput) =>
          /\ change'.effect.call = "onClearSearch"
                <=> filterOptions.filename # <<>>
          /\ filterOptions.filename = <<>> =>
                /\ change'.effect.call = "none"
                /\ engineSnapshot' = engineSnapshot
                /\ currentFocusIndex' = currentFocusIndex]_vars

\* Escape was pressed with a filter text that the view shows filtered, and
\* the search is cleared
C21_Witness ==
    /\ KeyHandled
    /\ change.key = "Escape"
    /\ ~change.targetIsInput
    /\ change.before[2].filename # <<>>
    /\ change.before[3] # <<>>
    /\ change.effect.call = "onClearSearch"
    /\ filterOptions.filename = <<>>

\* the index a key of the list moves the focus to
expectedFocus(key, index, length) ==
    CASE key = "ArrowDown" ->
             IF index + 1 < length - 1 THEN index + 1 ELSE length - 1
      [] key = "ArrowUp" -> IF index - 1 > 0 THEN index - 1 ELSE 0
      [] key = "Home" -> 0
      [] key = "End" -> length - 1

ListKeys == {"ArrowDown", "ArrowUp", "Home", "End"}

\* C22: with documents of length L > 0 and focus index i, ArrowDown moves
\* the index to min(i+1, L-1), ArrowUp to max(i-1, 0), Home to 0 and End to
\* L-1, and focusDocumentItem is called once, with the new index
C22_ListKeysMoveFocus ==
    [][(/\ pressKey
        /\ change.key \in ListKeys
        /\ ~change.targetIsInput
        /\ Len(currentDocuments) > 0) =>
          LET expected == expectedFocus(change.key, currentFocusIndex,
                                        Len(currentDocuments))
          IN  /\ currentFocusIndex' = expected
              /\ change'.effect.requests = <<expected>>]_vars

\* ArrowUp was pressed with no entry focused, in a view of several
\* entries, and the first entry has the focus
C22_Witness ==
    /\ KeyHandled
    /\ change.key = "ArrowUp"
    /\ ~change.targetIsInput
    /\ change.focus = -1
    /\ Len(change.documents) >= 2
    /\ currentFocusIndex = 0
    /\ change.effect.requests = <<0>>

\* C23: with documents empty, ArrowDown, ArrowUp, Home and End do not
\* prevent the default action, leave the focus index as it was and request
\* no focus
C23_ListKeysIdleWhenEmpty ==
    [][(/\ pressKey
        /\ change.key \in ListKeys
        /\ ~change.targetIsInput
        /\ Len(currentDocuments) = 0) =>
          /\ ~change'.effect.prevented
          /\ currentFocusIndex' = currentFocusIndex
          /\ change'.effect.requests = <<>>]_vars


\* C24: the empty-state classification is 'search', naming the debounced
\* filter and carrying it as searchTerm, whenever debouncedFilter is not
\* empty, also inside a folder; otherwise 'empty-folder' when currentPath
\* is not empty; otherwise 'root'
C24_EmptyStatePrecedence ==
    LET info == emptyStateInfo(debouncedFilter, currentPath)
    IN  /\ debouncedFilter # <<>> =>
              /\ info.type = "search"
              /\ info.message = "No documents match"
              /\ info.named = debouncedFilter
              /\ info.searchTerm = debouncedFilter
        /\ (debouncedFilter = <<>> /\ currentPath # <<>>) =>
              info.type = "empty-folder"
        /\ (debouncedFilter = <<>> /\ currentPath = <<>>) =>
              info.type = "root"

\* a filter is in force inside a folder and the view is empty
C24_Witness ==
    /\ debouncedFilter # <<>>
    /\ currentPath # <<>>
    /\ currentDocuments = <<>>
    /\ emptyStateInfo(debouncedFilter, currentPath).type = "search"

\* how often an entry occurs in a sequence of entries
countIn(items, item) == Cardinality({i \in 1..Len(items) : items[i] = item})

\* the entry a may stand before the entry b under the sort option
inOrder(a, b, option) ==
    IF option.field = "name"
    THEN IF option.direction = "asc"
         THEN localeCompare(a.name, b.name) <= 0
         ELSE localeCompare(a.name, b.name) >= 0
    ELSE /\ ~(a.type = "folder" /\ b.type = "file")
         /\ (a.type = "file" /\ b.type = "file") =>
               IF option.direction = "asc"
               THEN localeCompare(a.added, b.added) <= 0
               ELSE localeCompare(a.added, b.added) >= 0

C26_SetSortOptionFrame ==
    [][sortOption' # sortOption =>
          /\ UNCHANGED <<currentPath, filterOptions, debouncedFilter,
                         searchError, isLoading>>
          /\ \E before \in {currentDocuments} :
             \E after \in {documentsOf(currentPath', debouncedFilter',
                                        sortOption')} :
                /\ Len(after) = Len(before)
                /\ \A i \in 1..Len(before) :
                      countIn(after, before[i]) = countIn(before, before[i])]_vars

\* the sort option was changed while a filter text waits for its debounce
\* and the view has several entries
C26_Witness ==
    /\ sortOption = [field |-> "date", direction |-> "desc"]
    /\ filterOptions.filename # <<>>
    /\ filterOptions.filename # debouncedFilter
    /\ Len(currentDocuments) >= 2


\* C27: while the hook is mounted the listener list of document holds
\* exactly one keydown listener, the handleKeyDown of the last render, and
\* a key event dispatched then is handled exactly once; after the unmount
\* the list is empty and a key event is handed to no listener
C27_OneListenerWhileMounted ==
    /\ change.mounted => change.listeners = <<change.handler>>
    /\ ~change.mounted => (change.listeners = <<>> /\ change.pending = <<>>)
    /\ (change.key # "none" /\ change.pending = <<>>) =>
          change.handled = IF change.whileMounted THEN 1 ELSE 0

\* after several renders Backspace was dispatched inside a folder and
\* handled once: the navigation back is under way
C27_Witness ==
    /\ change.mounted
    /\ change.key = "Backspace"
    /\ change.whileMounted
    /\ change.pending = <<>>
    /\ change.handled = 1
    /\ currentPath # <<>>
    /\ isLoading


\* C28: a click, Enter, Space or ArrowRight on an item of the list calls
\* onFolderClick with the name of the item when the item is a folder, and
\* no input on a file calls it
C28_ActivationOpensFoldersOnly ==
    [][activateItem =>
          LET item == currentDocuments[change.index]
              effect == change'.effect
          IN  /\ (/\ item.type = "folder"
                  /\ change.input \in {"click", "Enter", " ", "ArrowRight"}) =>
                    /\ effect.call = "onFolderClick"
                    /\ effect.argument = item.name
              /\ item.type # "folder" =>
                    /\ effect.call = "none"
                    /\ engineSnapshot' = engineSnapshot]_vars

\* Space was pressed on a folder of the list and the navigation into it
\* is under way
C28_Witness ==
    /\ change.stage = "handled"
    /\ change.input = " "
    /\ change.item.type = "folder"
    /\ change.effect.call = "onFolderClick"
    /\ isLoading


\* the path a call is to write, from the path at the call
pathFromCaptured(call) ==
    IF call.kind = "into" THEN Append(call.captured, call.name)
    ELSE SubSeq(call.captured, 1, Len(call.captured) - 1)

\* the second navigation was called while the first was pending
Overlapped ==
    /\ Len(change.issued) = 2
    /\ change.issued[2].overlapping

\* C29: of two overlapping navigations none is blocked, queued or dropped:
\* each call not yet committed has its timer pending, each commit writes
\* the path computed from the path at its call, after both commits
\* currentPath is the path the last commit wrote, and both do commit
C29_OverlappingNavigationsBothCommit ==
    /\ [](Overlapped =>
            /\ pendingNavigations = 2 - Len(change.written)
            /\ \A j \in 1..Len(change.written) :
                  change.written[j].path =
                     pathFromCaptured(change.issued[change.written[j].call])
            /\ Len(change.written) = 2 =>
                  /\ change.written[1].call # change.written[2].call
                  /\ currentPath = change.written[2].path)
    /\ (Overlapped ~> Len(change.written) = 2)

\* inside the folder a a way back and a way into A overlapped: the way
\* back committed first and left the root, and the way into A then wrote
\* the path it had been called at with A appended
C29_Witness ==
    /\ Overlapped
    /\ Len(change.written) = 2
    /\ change.issued[change.written[2].call].kind = "into"
    /\ change.written[1].path = <<>>
    /\ change.issued[change.written[2].call].captured = << <<"a">> >>
    /\ currentPath = << <<"a">>, <<"A">> >>


\* the steps of the one navigation: loading with the path and the view of
\* the call during the delay, then the path with the name appended and the
\* search box and the error emptied, and loading over only with the new
\* path
NavigationInOrder ==
    /\ change.stage = "called" =>
          /\ isLoading
          /\ currentPath = change.path
          /\ currentDocuments = change.documents
    /\ change.stage = "committed" =>
          /\ currentPath = Append(change.path, change.name)
          /\ filterOptions.filename = <<>>
          /\ searchError = NoError
    /\ ~isLoading => currentPath = Append(change.path, change.name)

\* C30 as stated: navigateToFolder called with the name of a folder in
\* view, no navigation pending, goes through its steps in order
C30_NavigateStepsInOrder ==
    (change.stage # "start" /\ change.inView.visible) => NavigationInOrder

\* C30: navigateToFolder called with a name whose first entry in the view
\* is a folder, with no navigation and no debounce pending, goes through
\* its steps in order
C30_NavigateStepsInOrderAtRest ==
    (/\ change.stage # "start"
     /\ change.inView.first = "folder"
     /\ ~change.debouncePending) => NavigationInOrder

\* from the root, with a filter in force and an error shown, the
\* navigation into the folder a has committed
C30_Witness ==
    /\ change.stage = "committed"
    /\ change.inView.first = "folder"
    /\ ~change.debouncePending
    /\ change.path = <<>>
    /\ Len(change.documents) >= 2
    /\ currentPath = << <<"a">> >>
    /\ ~isLoading


\* the folders of a sequence of entries, in their order
foldersOf(items) ==
    LET IsFolder(item) == item.type = "folder" IN SelectSeq(items, IsFolder)

\* C31: in a view sorted by date the files stand by their added date
\* string, ascending for asc and descending for desc, and the folders stand
\* in the order in which the children sequence holds them, in both
\* directions
C31_DateSortOrdersFilesKeepsFolders ==
    Viewed =>
        \A direction \in {"asc", "desc"} :
            LET view == change.views[[field |-> "date",
                                      direction |-> direction]]
                Shown(item) == containsIgnoringCase(item.name, change.filter)
            IN  /\ \A i, j \in 1..Len(view) :
                      (/\ i < j
                       /\ view[i].type # "folder"
                       /\ view[j].type # "folder") =>
                         IF direction = "asc"
                         THEN localeCompare(view[i].added, view[j].added) <= 0
                         ELSE localeCompare(view[i].added, view[j].added) >= 0
                /\ foldersOf(view) = foldersOf(SelectSeq(change.items, Shown))

\* two folders stored in the order that a sort by name would turn round,
\* with a file between them, have been sorted by date
C31_Witness ==
    /\ Viewed
    /\ Len(change.items) = MaxItems
    /\ change.items[1].type = "folder"
    /\ change.items[2].type # "folder"
    /\ change.items[3].type = "folder"
    /\ localeCompare(change.items[1].name, change.items[3].name) > 0
    /\ LET view == change.views[[field |-> "date", direction |-> "desc"]]
       IN  view = <<change.items[2], change.items[1], change.items[3]>>


\* C32: a focus request for the index N gives the focus to the rendered
\* element that shows documents[N] or does nothing, also when only a
\* window of a long list is rendered
C32_FocusGoesToRequestedEntry ==
    (change.stage = "requested" /\ change.result.focused) =>
        change.result.shows = change.index


\* every name of the path is the name of a folder at its level
RECURSIVE pathResolves(_, _)
pathResolves(items, path) ==
    \/ path = <<>>
    \/ LET folders == {k \in 1..Len(items) :
                          /\ items[k].type = "folder"
                          /\ items[k].name = Head(path)}
       IN  /\ folders # {}
           /\ pathResolves(
                 items[CHOOSE k \in folders : \A l \in folders : k <= l].files,
                 Tail(path))

\* C33: when currentPath does not resolve, because a name of it names no
\* entry at its level or only a file, the displayed documents are empty
\* under every filter and sort option, and searchError records no error
C33_UnresolvedPathShowsNothing ==
    (change.stage = "rendered" /\ ~pathResolves(mockData, currentPath)) =>
        /\ change.documents = <<>>
        /\ searchError = NoError

\* the path names the file A of the root, and the view is empty although
\* the root has entries
C33_Witness ==
    /\ change.stage = "rendered"
    /\ currentPath = << <<"A">> >>
    /\ debouncedFilter = <<>>
    /\ ~pathResolves(mockData, currentPath)
    /\ change.documents = <<>>


\* navigateToFolder was called twice with one name, the second time while
\* the first call was pending
CalledTwice ==
    /\ Overlapped
    /\ change.issued[1].kind = "into"
    /\ change.issued[2].kind = "into"
    /\ change.issued[1].name = change.issued[2].name

\* C34: when navigateToFolder(name) is called twice from one committed
\* state before either call commits, both calls start from the same path,
\* and from the first commit on currentPath is that path with the name
\* appended once
C34_DoubleCallAppendsOnce ==
    CalledTwice =>
        /\ change.issued[1].captured = change.issued[2].captured
        /\ Len(change.written) >= 1 =>
              currentPath = Append(change.issued[1].captured,
                                   change.issued[1].name)

\* at the root the folder a was entered twice at once, both calls have
\* committed and the path is a, one name long
C34_Witness ==
    /\ CalledTwice
    /\ Len(change.written) = 2
    /\ change.issued[1].captured = <<>>
    /\ currentPath = << <<"a">> >>
    /\ ~isLoading


\* a valid search term: at most MaxSearchLen characters, none of them
\* forbidden, no MaxSpaces whitespace characters in a row, and no
\* whitespace at either end
validTerm(text) ==
    /\ Len(text) <= MaxSearchLen
    /\ \A i \in 1..Len(text) : text[i] \notin ForbiddenChars
    /\ ~\E i \in 1..Len(text) :
           /\ i + MaxSpaces - 1 <= Len(text)
           /\ \A k \in i..(i + MaxSpaces - 1) : text[k] \in WhitespaceChars
    /\ text # <<>> =>
          /\ text[1] \notin WhitespaceChars
          /\ text[Len(text)] \notin WhitespaceChars

\* C35: after any sequence of handleFilterChange, clearSearch,
\* setSortOption, navigateToFolder and navigateBack the filter text is a
\* valid search term
C35_FilterTextAlwaysValid == validTerm(filterOptions.filename)

\* inside a folder, sorted by date, the filter text is as long as a
\* search term may be, typed with a space before it
C35_Witness ==
    /\ currentPath # <<>>
    /\ sortOption.field = "date"
    /\ Len(filterOptions.filename) = MaxSearchLen - 1
    /\ searchError = NoError

====
